---- MODULE Spec2Model ----
(***************************************************************************)
(* Model of the talking avatar (TalkingAvatar component with cloud-speech  *)
(* visemes) and of the chat page's say / speakFallback orchestration.      *)
(*                                                                         *)
(* Conventions                                                             *)
(*   - a JS string is a sequence of one-character strings;                 *)
(*   - a morph weight is an integer number of hundredths (1.0 = 100,       *)
(*     0.95 = 95);                                                         *)
(*   - a morphTargetDictionary is the sequence of its keys in insertion    *)
(*     order, the key at position p having target index p - 1;             *)
(*   - times are integer milliseconds; a timeline keeps its event times in *)
(*     units of 1/unit ms so that est / chars.length stays exact.          *)
(***************************************************************************)
EXTENDS Integers, Sequences, FiniteSets, TLC

VARIABLES
    model,        \* the asset behind avatarUrl: one target dictionary per mesh
    loadState,    \* loader.load: "pending", "loaded" or "failed"
    morphIndex,   \* morphIndexRef.current
    influences,   \* mesh.morphTargetInfluences of every mesh of the asset
    visemes,      \* visemesRef.current
    now,          \* performance.now()
    synthRef,     \* synthRef.current: 0 is null, c is the synthesizer of call c
    calls,        \* every say() call: position, synthesizer, outcome, utterance
    timers,       \* deadlines of the pending setTimeout(clearAllMouth, 70)
    muted,        \* the chat page's muted state
    effect,       \* the load effect: its runs, its frame callback, its loads
    phase,        \* tRef.current and glowTRef.current, in ms
    gesture,      \* gestureRef.current of the VRM avatar and its expiry timers
    lastOp        \* the operation that produced this state

\* the name of the operation stands before its record: two records of
\* different operations are told apart by the name, their arguments being of
\* different kinds (a number, a label, a text)
vars == <<model, loadState, morphIndex, influences, visemes, now, synthRef,
          calls, timers, muted, effect, phase, gesture, lastOp.op, lastOp>>

-----------------------------------------------------------------------------
(* Bounds of the exploration *)

MaxCalls == 2
MaxNow == 1600
MaxTimers == 1
MaxKeys == 2
MaxTime == 2100
MaxHold == 210
MaxRuns == 2

\* the sum of the frame deltas of a behaviour, in ms
MaxPhase == 50

\* the time a behaviour of the gestures covers, in ms
MaxWait == 3200

\* the gesture timers pending at one time
MaxPending == 2

\* the viseme timers pending at one time when events follow each other closely
MaxOverlap == 2

-----------------------------------------------------------------------------
(* Strings *)

UpperCase == <<"A","B","C","D","E","F","G","H","I","J","K","L","M",
               "N","O","P","Q","R","S","T","U","V","W","X","Y","Z">>

LowerCase == <<"a","b","c","d","e","f","g","h","i","j","k","l","m",
               "n","o","p","q","r","s","t","u","v","w","x","y","z">>

\* String.prototype.toLowerCase on one character
toLowerChar(ch) ==
    IF \E k \in 1..26 : UpperCase[k] = ch
    THEN LowerCase[CHOOSE k \in 1..26 : UpperCase[k] = ch]
    ELSE ch

\* String.prototype.toUpperCase on one character
toUpperChar(ch) ==
    IF \E k \in 1..26 : LowerCase[k] = ch
    THEN UpperCase[CHOOSE k \in 1..26 : LowerCase[k] = ch]
    ELSE ch

toLowerCase(s) == [k \in 1..Len(s) |-> toLowerChar(s[k])]

\* String.prototype.includes: sub occurs in s as a contiguous substring
includes(s, sub) ==
    \E off \in 0..(Len(s) - Len(sub)) :
        \A k \in 1..Len(sub) : s[off + k] = sub[k]

\* is ch one of the letters a-z, A-Z (the complement of /[^a-z]/gi)
isLetter(ch) == \E k \in 1..26 : ch = UpperCase[k] \/ ch = LowerCase[k]

-----------------------------------------------------------------------------
(* Channel registry: findIndex / registerMorphTargets *)

Labels == {"A", "E", "I", "O", "U", "mouthOpen"}

n_viseme_aa == <<"v","i","s","e","m","e","_","a","a">>
n_viseme_e == <<"v","i","s","e","m","e","_","e">>
n_viseme_ih == <<"v","i","s","e","m","e","_","i","h">>
n_viseme_oh == <<"v","i","s","e","m","e","_","o","h">>
n_viseme_uh == <<"v","i","s","e","m","e","_","u","h">>
n_mouthOpen == <<"m","o","u","t","h","O","p","e","n">>
n_MouthOpen == <<"M","o","u","t","h","O","p","e","n">>
n_mouth_open == <<"m","o","u","t","h","_","o","p","e","n">>

\* the candidate names registerMorphTargets tries for each label, in order
Candidates(label) ==
    CASE label = "A" -> <<n_viseme_aa, <<"A">>>>
      [] label = "E" -> <<n_viseme_e, <<"E">>>>
      [] label = "I" -> <<n_viseme_ih, <<"I">>>>
      [] label = "O" -> <<n_viseme_oh, <<"O">>>>
      [] label = "U" -> <<n_viseme_uh, <<"U">>>>
      [] label = "mouthOpen" -> <<n_mouthOpen, n_MouthOpen, n_mouth_open>>

\* Array.prototype.find over the keys: position of the first key whose test
\* (hits[p], one truth value per key) succeeds, 0 when there is none
FirstKey(hits) ==
    IF \E p \in 1..Len(hits) : hits[p]
    THEN CHOOSE p \in 1..Len(hits) : hits[p] /\ \A q \in 1..(p - 1) : ~hits[q]
    ELSE 0

\* findIndex(dict, name): exact key, else first key equal ignoring case, else
\* first key containing the name ignoring case, else -1
findIndex(dict, name) ==
    LET lower == toLowerCase(name)
        exact == FirstKey([p \in 1..Len(dict) |-> dict[p] = name])
        same == FirstKey([p \in 1..Len(dict) |-> toLowerCase(dict[p]) = lower])
        contains == FirstKey([p \in 1..Len(dict) |->
                                includes(toLowerCase(dict[p]), lower)])
    IN  IF exact # 0 THEN exact - 1
        ELSE IF same # 0 THEN same - 1
        ELSE IF contains # 0 THEN contains - 1
        ELSE -1

\* tryOne(...names): the first candidate for which findIndex finds a target
RECURSIVE tryOne(_, _)
tryOne(dict, names) ==
    IF names = <<>> THEN -1
    ELSE LET idx == findIndex(dict, Head(names))
         IN  IF idx >= 0 THEN idx ELSE tryOne(dict, Tail(names))

\* registerMorphTargets(mesh): push one channel per label that was found
registerMorphTargets(index, m, dict) ==
    [l \in Labels |->
        LET found == tryOne(dict, Candidates(l))
        IN  IF found >= 0 THEN Append(index[l], [mesh |-> m, idx |-> found])
            ELSE index[l]]

\* root.traverse(obj => registerMorphTargets(obj)) over meshes m..Len(mdl)
RECURSIVE traverse(_, _, _)
traverse(index, mdl, m) ==
    IF m > Len(mdl) THEN index
    ELSE traverse(registerMorphTargets(index, m, mdl[m]), mdl, m + 1)

EmptyIndex == [l \in Labels |-> <<>>]

-----------------------------------------------------------------------------
(* Mouth-shape actuator: clearAllMouth / setMouthShape *)

\* the assignments of arr.forEach(({mesh, idx}) => influences[idx] = value),
\* in the order they are made
writesOf(arr, value) ==
    [k \in 1..Len(arr) |-> [mesh |-> arr[k].mesh, idx |-> arr[k].idx, value |-> value]]

\* the weights after the assignments mesh.morphTargetInfluences[idx] = value
\* of writes were made one after the other: a target keeps the value of the
\* last assignment made to it
assignAll(inf, writes) ==
    [m \in DOMAIN inf |-> [i \in DOMAIN inf[m] |->
        LET hits == {k \in 1..Len(writes) : writes[k].mesh = m /\ writes[k].idx = i}
        IN  IF hits = {} THEN inf[m][i]
            ELSE writes[CHOOSE k \in hits : \A j \in hits : j <= k].value]]

\* clearAllMouth() going over the vowel labels only, not over mouthOpen
clearAllMouthVowelsOnly(index, inf) ==
    assignAll(inf, writesOf(index["A"], 0) \o writesOf(index["E"], 0)
                   \o writesOf(index["I"], 0) \o writesOf(index["O"], 0)
                   \o writesOf(index["U"], 0))

\* clearAllMouth(): Object.values(morphIndexRef.current) in key order, every
\* registered channel to 0
clearAllMouth(index, inf) ==
    assignAll(inf, writesOf(index["A"], 0) \o writesOf(index["E"], 0)
                   \o writesOf(index["I"], 0) \o writesOf(index["O"], 0)
                   \o writesOf(index["U"], 0) \o writesOf(index["mouthOpen"], 0))

\* the weight setMouthShape gives the channels of vowel nm
shapeWeight(nm, shape, value) == IF nm = shape THEN value ELSE 0

\* setMouthShape with += in place of = in the mouthOpen branch
setMouthShapeAdds(index, inf, shape, value) ==
    IF shape \in Labels /\ Len(index[shape]) > 0
    THEN assignAll(inf,
            writesOf(index["A"], shapeWeight("A", shape, value))
            \o writesOf(index["E"], shapeWeight("E", shape, value))
            \o writesOf(index["I"], shapeWeight("I", shape, value))
            \o writesOf(index["O"], shapeWeight("O", shape, value))
            \o writesOf(index["U"], shapeWeight("U", shape, value)))
    ELSE [m \in DOMAIN inf |-> [i \in DOMAIN inf[m] |->
            IF \E k \in 1..Len(index["mouthOpen"]) :
                    index["mouthOpen"][k].mesh = m /\ index["mouthOpen"][k].idx = i
            THEN inf[m][i] + value ELSE inf[m][i]]]

\* setMouthShape falling back to the first morph target of every mesh when
\* neither the shape nor mouthOpen has a channel
setMouthShapeDefaultsToFirstTarget(index, inf, shape, value) ==
    IF shape \in Labels /\ Len(index[shape]) > 0
    THEN assignAll(inf,
            writesOf(index["A"], shapeWeight("A", shape, value))
            \o writesOf(index["E"], shapeWeight("E", shape, value))
            \o writesOf(index["I"], shapeWeight("I", shape, value))
            \o writesOf(index["O"], shapeWeight("O", shape, value))
            \o writesOf(index["U"], shapeWeight("U", shape, value)))
    ELSE IF Len(index["mouthOpen"]) > 0
    THEN assignAll(inf, writesOf(index["mouthOpen"], value))
    ELSE [m \in DOMAIN inf |-> [i \in DOMAIN inf[m] |->
            IF i = 0 THEN value ELSE inf[m][i]]]

\* setMouthShape(shape, value): when the shape has channels, the vowels
\* A, E, I, O, U in this order, the channels of each to value or 0; else the
\* mouthOpen channels to value
setMouthShape(index, inf, shape, value) ==
    IF shape \in Labels /\ Len(index[shape]) > 0
    THEN assignAll(inf,
            writesOf(index["A"], shapeWeight("A", shape, value))
            \o writesOf(index["E"], shapeWeight("E", shape, value))
            \o writesOf(index["I"], shapeWeight("I", shape, value))
            \o writesOf(index["O"], shapeWeight("O", shape, value))
            \o writesOf(index["U"], shapeWeight("U", shape, value)))
    ELSE assignAll(inf, writesOf(index["mouthOpen"], value))

-----------------------------------------------------------------------------
(* Heuristic timeline: buildVisemeTimelineFromText *)

isSpace(ch) == ch = " "

\* text.replace(/\s+/g, " "): every run of whitespace becomes one space, i.e.
\* a whitespace character that follows another one is dropped
collapseSpaces(s) ==
    LET kept == {k \in 1..Len(s) : ~(isSpace(s[k]) /\ k > 1 /\ isSpace(s[k - 1]))}
        nth(i) == CHOOSE k \in kept : Cardinality({j \in kept : j <= k}) = i
    IN  [i \in 1..Cardinality(kept) |-> s[nth(i)]]

\* String.prototype.trim on a string whose whitespace runs are single spaces
trim(s) ==
    LET a == IF s # <<>> /\ isSpace(Head(s)) THEN Tail(s) ELSE s
    IN  IF a # <<>> /\ isSpace(a[Len(a)]) THEN SubSeq(a, 1, Len(a) - 1) ELSE a

cleanText(text) == trim(collapseSpaces(text))

\* clean.split(" ").length
wordCount(clean) == Cardinality({k \in 1..Len(clean) : clean[k] = " "}) + 1

\* clean.replace(/[^a-z]/gi, "") without the placeholder "aaa"
lettersOfNoPlaceholder(clean) ==
    SelectSeq(clean, isLetter)

\* clean.replace(/[^a-z]/gi, "") || "aaa"
lettersOf(clean) ==
    LET kept == SelectSeq(clean, isLetter)
    IN  IF kept = <<>> THEN <<"a", "a", "a">> ELSE kept

\* map(c) with a default that is not fixed: "U" or "I" according to whether a
\* timeline is active at the time of the call
mapCharUnsteady(ch) ==
    LET c == toLowerChar(ch)
    IN  CASE c = "a" -> "A"
          [] c = "e" -> "E"
          [] c = "i" -> "I"
          [] c = "o" -> "O"
          [] c = "u" -> "U"
          [] OTHER -> IF visemes.active THEN "U" ELSE "I"

\* map(c): the vowel of the letter, every other letter is "I"
mapChar(ch) ==
    LET c == toLowerChar(ch)
    IN  CASE c = "a" -> "A"
          [] c = "e" -> "E"
          [] c = "i" -> "I"
          [] c = "o" -> "O"
          [] c = "u" -> "U"
          [] OTHER -> "I"

Max(a, b) == IF a >= b THEN a ELSE b

Min(a, b) == IF a <= b THEN a ELSE b

\* the estimate without its upper limit of 18000 ms
estimateTenthsNoMax(words) == Max(14000, words * 3672)

\* est when no totalMs is given, in tenths of a millisecond:
\* Math.max(1400, Math.min(18000, words * 272 * 1.35))
estimateTenths(words) == Max(14000, Min(180000, words * 3672))

\* The timeline of a text whose duration is estNum / estDen milliseconds.
\* step = est / chars.length; event i has time i * step and dur step * 0.88.
\* With unit = 100 * estDen * chars.length these are whole numbers of 1/unit ms.
timelineOf(text, estNum, estDen) ==
    LET clean == cleanText(text)
        chars == lettersOf(clean)
    IN  IF clean = <<>> THEN [events |-> <<>>, unit |-> 1]
        ELSE [events |-> [k \in 1..Len(chars) |->
                            [time |-> (k - 1) * estNum * 100,
                             shape |-> mapChar(chars[k]),
                             value |-> 95,
                             dur |-> estNum * 88]],
              unit |-> 100 * estDen * Len(chars)]

\* buildVisemeTimelineFromText(text, totalMs), totalMs = hintNum / hintDen ms,
\* or null when hintDen = 0
buildVisemeTimelineFromText(text, hintNum, hintDen) ==
    IF hintDen = 0
    THEN timelineOf(text, estimateTenths(wordCount(cleanText(text))), 10)
    ELSE timelineOf(text, hintNum, hintDen)

\* mapAzureVisemeToShape(id) without its final `return "I"`: an id in no
\* set gives no shape, written ""
mapAzureVisemeToShapeNoDefault(id) ==
    CASE id \in {2, 3, 13, 14} -> "A"
      [] id \in {1, 5, 7} -> "E"
      [] id \in {8, 9} -> "I"
      [] id \in {4, 10, 15} -> "O"
      [] id \in {11, 12} -> "U"
      [] OTHER -> ""

\* mapAzureVisemeToShape(id)
mapAzureVisemeToShape(id) ==
    CASE id \in {2, 3, 13, 14} -> "A"
      [] id \in {1, 5, 7} -> "E"
      [] id \in {8, 9} -> "I"
      [] id \in {4, 10, 15} -> "O"
      [] id \in {11, 12} -> "U"
      [] OTHER -> "I"

-----------------------------------------------------------------------------
(* Chat page: the duration hint of speakFallback *)

\* the reply texts explored by Spec
Texts == { <<"o", "k">> }

\* (text || "").trim().split(/\s+/).filter(Boolean).length || 1
fallbackWords(text) ==
    IF cleanText(text) = <<>> THEN 1 ELSE wordCount(cleanText(text))

\* estMs = Math.max(1500, Math.min(20000, words * 320 * (1.0 / u.rate))) with
\* u.rate = 0.95, as a number of 1/19 ms: words * 320 / 0.95 = words * 6400 / 19
fallbackEstNum(text) == Max(1500 * 19, Min(20000 * 19, fallbackWords(text) * 6400))

fallbackEstDen == 19

\* the reply texts explored by SpecEffect: the same and a blank reply
EffectTexts == { <<"o", "k">>, <<" ">> }

\* the timeline speakFallback hands to driveMouthStart, for every text
fallbackTimeline ==
    [t \in Texts \cup EffectTexts |->
        buildVisemeTimelineFromText(t, fallbackEstNum(t), fallbackEstDen)]

-----------------------------------------------------------------------------
(* State *)

\* a target name that matches no candidate of any label
n_none == <<"h", "m">>

\* the assets explored by Spec: a rig with one target per vowel, a rig with
\* only a generic mouth-open target, and a rig without any mouth target
MainRigs ==
    { << <<<<"A">>, <<"E">>, <<"I">>, <<"O">>, <<"U">>>> >>,
      << <<n_mouthOpen>> >>,
      << <<n_none>> >> }

\* the viseme ids explored by Spec (0 is silence, 21 the last id of the engine)
VisemeIds == {0, 2, 10, 21}

\* the clock is observed every 800 ms: within the first event of the
\* fallback timeline, within a later one, and after the timeline ran out
TimeSteps == {800}

\* the bookkeeping of one say() call
\*   pc       "idle" not issued, "token" awaiting getToken, "speaking"
\*            awaiting speakSsmlAsync, "done" returned
\*   open     its synthesizer is created and not closed
\*   outcome  of speakAzure: "none", "resolved", "rejected"
\*   cause    why it ended: "none", "ok", "credential", "playback", "synthesis"
\*   fallback say ran speakFallback
\*   utt      its browser utterance: "none" (not spoken, or ended), "speaking",
\*            "cancelled"
\* muted is the value say's closure holds; it is read by speakFallback only,
\* and is reset once the call is past that point
IdleCall ==
    [pc |-> "idle", text |-> <<>>, muted |-> FALSE, open |-> FALSE,
     outcome |-> "none", cause |-> "none", fallback |-> FALSE, utt |-> "none"]

CallIds == 1..MaxCalls

\* the record kept in lastOp: the operation and two of its arguments
Op(name, a, b) == [op |-> name, a |-> a, b |-> b, again |-> FALSE]

\* the same for a call of the actuator; again tells that the operation before
\* it was the same call with the same arguments
OpAgain(name, a, b) ==
    [op |-> name, a |-> a, b |-> b,
     again |-> (lastOp.op = name /\ lastOp.a = a /\ lastOp.b = b)]

\* the load effect after its first run
\*   mounted  the effect ran and its cleanup did not
\*   raf      frame callbacks requested and neither run nor cancelled
\*   runs     how often the effect body ran
\*   first    the first mesh (position in model) of the asset of the last run
\*   stale    the loads of earlier runs still in flight, as ranges of meshes
MountedEffect ==
    [mounted |-> TRUE, raf |-> 1, runs |-> 1, first |-> 1, stale |-> {}]

\* gestureRef.current of the VRM avatar before any gesture, with the pending
\* expiry timers of startWave / startNod
\*   wave, nod  the flags tick() reads
\*   timers     the pending setTimeout callbacks: the flag each resets and its
\*              deadline. Two callbacks for one flag with one deadline do what
\*              one does.
\*   started    when each gesture was triggered last
\*   raised     when each flag went from false to true last
IdleGesture ==
    [wave |-> FALSE, nod |-> FALSE, timers |-> {},
     started |-> [wave |-> 0, nod |-> 0], raised |-> [wave |-> 0, nod |-> 0]]

InitWith(rigs) ==
    /\ model \in rigs
    /\ loadState = "pending"
    /\ morphIndex = EmptyIndex
    /\ influences = [m \in 1..Len(model) |-> [i \in 0..(Len(model[m]) - 1) |-> 0]]
    /\ visemes = [timeline |-> <<>>, unit |-> 1, startedAt |-> 0, active |-> FALSE]
    /\ now = 0
    /\ synthRef = 0
    /\ calls = [c \in CallIds |-> IdleCall]
    /\ timers = {}
    /\ muted = FALSE
    /\ effect = MountedEffect
    /\ phase = [t |-> 0, glow |-> 0]
    /\ gesture = IdleGesture
    /\ lastOp = [op |-> "init", a |-> 0, b |-> 0, again |-> FALSE]

Init == InitWith(MainRigs)

-----------------------------------------------------------------------------
(* Model load *)

\* loader.load success callback: register the morph targets of every mesh,
\* then setExpression(initialExpression), which is clearAllMouth()
LoadSuccess ==
    /\ loadState = "pending"
    /\ loadState' = "loaded"
    /\ morphIndex' = traverse(morphIndex, model, effect.first)
    /\ influences' = clearAllMouth(morphIndex', influences)
    /\ lastOp' = Op("load", 0, 0)
    /\ UNCHANGED <<phase, gesture, effect, model, visemes, now, synthRef, calls, timers, muted>>

\* loader.load error callback: console.error only
LoadError ==
    /\ loadState = "pending"
    /\ loadState' = "failed"
    /\ lastOp' = Op("loadError", 0, 0)
    /\ UNCHANGED <<phase, gesture, effect, model, morphIndex, influences, visemes, now, synthRef, calls,
                   timers, muted>>

-----------------------------------------------------------------------------
(* Imperative handle of the avatar *)

\* wave(): tRef.current = 0
wave(p) == [p EXCEPT !.t = 0]

\* nod(): tRef.current = 0
nod(p) == [p EXCEPT !.t = 0]

\* synthesizer.close() on the synthesizer of call s (s = 0: no synthesizer)
closeSynth(cs, s) == IF s = 0 THEN cs ELSE [cs EXCEPT ![s].open = FALSE]

\* the shape setMouthByChar(ch) asks for; ch is a JS string
\*   c = (ch || "").toLowerCase()
\*   shape = "aeiou".includes(c) ? c.toUpperCase() : "I"
\* a string that is no single character names no label and is written ""
charShape(ch) ==
    LET c == toLowerCase(ch)
    IN  IF includes(<<"a", "e", "i", "o", "u">>, c)
        THEN (IF Len(c) = 1 THEN toUpperChar(c[1]) ELSE "")
        ELSE "I"

\* speechSynthesis.cancel(): the utterances being spoken are dropped
cancelUtterances(cs) ==
    [c \in CallIds |->
        IF cs[c].utt = "speaking" THEN [cs[c] EXCEPT !.utt = "cancelled"] ELSE cs[c]]

\* stopMouth() without the close of the synthesizer and without forgetting it
stopMouthKeepsSession(cs) ==
    /\ visemes' = [visemes EXCEPT !.active = FALSE]
    /\ influences' = clearAllMouth(morphIndex, influences)
    /\ calls' = cs
    /\ synthRef' = synthRef

\* stopMouth(): timeline off, clearAllMouth(), close and forget the synthesizer
stopMouth(cs) ==
    /\ visemes' = [visemes EXCEPT !.active = FALSE]
    /\ influences' = clearAllMouth(morphIndex, influences)
    /\ calls' = closeSynth(cs, synthRef)
    /\ synthRef' = 0

\* what stopMouth finds: the open session, else the active timeline
activeSource ==
    IF synthRef # 0 THEN "live" ELSE IF visemes.active THEN "timeline" ELSE "none"

anyWeightSet ==
    \E m \in DOMAIN influences : \E i \in DOMAIN influences[m] : influences[m][i] # 0

allWeightsZero(inf) ==
    \A m \in DOMAIN inf : \A i \in DOMAIN inf[m] : inf[m][i] = 0

-----------------------------------------------------------------------------
(* Chat page: sendMessage / say / speakFallback, and speakAzure *)

\* sendMessage after the reply arrived: setExpression("happy") (which is
\* clearAllMouth()), wave(), then say(text) up to speakAzure's await getToken():
\* the previous synthesizer is closed and forgotten
Say(c, text) ==
    /\ calls[c].pc = "idle"
    /\ \A d \in CallIds : d < c => calls[d].pc # "idle"
    /\ influences' = clearAllMouth(morphIndex, influences)
    /\ calls' = [closeSynth(calls, synthRef) EXCEPT
                    ![c].pc = "token", ![c].text = text, ![c].muted = muted]
    /\ synthRef' = 0
    /\ phase' = wave(phase)
    /\ lastOp' = Op("say", 0, 0)
    /\ UNCHANGED <<gesture, effect, model, loadState, morphIndex, visemes, now, timers, muted>>

\* getToken() resolved: the synthesizer is created, stored in synthRef, given
\* its visemeReceived handler, and speakSsmlAsync is started
TokenResolved(c) ==
    /\ calls[c].pc = "token"
    /\ calls' = [calls EXCEPT ![c].pc = "speaking", ![c].open = TRUE,
                              ![c].muted = FALSE]
    /\ synthRef' = c
    /\ lastOp' = Op("tokenResolved", 0, 0)
    /\ UNCHANGED <<phase, gesture, effect, model, loadState, morphIndex, influences, visemes, now, timers,
                   muted>>

\* getToken() rejected ("credential") or the speech / audio configuration
\* threw ("playback"): speakAzure logs and rethrows, say catches and runs
\* speakFallback(text): nothing more when muted, else cancel the browser
\* speech, driveMouthStart(text, estMs) and speak a new utterance
SpeakRejected(c, cause) ==
    /\ calls[c].pc = "token"
    /\ LET tl == fallbackTimeline[calls[c].text]
           ended == [calls EXCEPT ![c].pc = "done", ![c].outcome = "rejected",
                                  ![c].cause = cause, ![c].fallback = TRUE,
                                  ![c].muted = FALSE]
       IN  IF calls[c].muted
           THEN /\ calls' = ended
                /\ UNCHANGED visemes
           ELSE /\ calls' = [cancelUtterances(ended) EXCEPT ![c].utt = "speaking"]
                /\ visemes' = [timeline |-> tl.events, unit |-> tl.unit,
                               startedAt |-> now, active |-> TRUE]
    /\ lastOp' = Op("speakRejected", 0, 0)
    /\ UNCHANGED <<phase, gesture, effect, model, loadState, morphIndex, influences, now, synthRef, timers,
                   muted>>

\* the viseme handler without its setTimeout(clearAllMouth, 70)
VisemeReceivedNoTimer(c, id) ==
    /\ calls[c].pc = "speaking"
    /\ calls[c].open
    /\ influences' = setMouthShape(morphIndex, influences, mapAzureVisemeToShape(id), 100)
    /\ lastOp' = Op("viseme", id, 0)
    /\ UNCHANGED <<phase, gesture, effect, model, loadState, morphIndex, visemes, now, synthRef, calls,
                   timers, muted>>

\* synthesizer.visemeReceived of call c: apply the mapped shape at 1.0 and
\* schedule clearAllMouth() 70 ms later; max is the number of timers followed
visemeReceived(c, id, max) ==
    /\ calls[c].pc = "speaking"
    /\ calls[c].open
    /\ (now + 70) \in timers \/ Cardinality(timers) < max
    /\ influences' = setMouthShape(morphIndex, influences, mapAzureVisemeToShape(id), 100)
    /\ timers' = timers \cup {now + 70}
    /\ lastOp' = Op("viseme", id, 0)
    /\ UNCHANGED <<phase, gesture, effect, model, loadState, morphIndex, visemes, now, synthRef, calls, muted>>

\* a viseme event with one timer pending at a time
VisemeReceived(c, id) == visemeReceived(c, id, MaxTimers)

\* the callbacks of speakSsmlAsync: success (ok) or error; either closes the
\* synthesizer of the call, sets synthRef to null and resolves the promise,
\* after which speakAzure runs clearAllMouth() and returns. A synthesizer that
\* was closed meanwhile can only report an error.
SpeakCompleted(c, ok) ==
    /\ calls[c].pc = "speaking"
    /\ calls[c].open \/ ~ok
    /\ calls' = [calls EXCEPT ![c].pc = "done", ![c].open = FALSE,
                              ![c].outcome = "resolved",
                              ![c].cause = IF ok THEN "ok" ELSE "synthesis"]
    /\ synthRef' = 0
    /\ influences' = clearAllMouth(morphIndex, influences)
    /\ lastOp' = Op("speakCompleted", 0, 0)
    /\ UNCHANGED <<phase, gesture, effect, model, loadState, morphIndex, visemes, now, timers, muted>>

\* a timer set by visemeReceived fires: clearAllMouth()
ClearTimer(d) ==
    /\ d \in timers
    /\ d <= now
    /\ timers' = timers \ {d}
    /\ influences' = clearAllMouth(morphIndex, influences)
    /\ lastOp' = Op("clearTimer", 0, 0)
    /\ UNCHANGED <<phase, gesture, effect, model, loadState, morphIndex, visemes, now, synthRef, calls, muted>>

\* u.onboundary at character k of the text: setMouthByChar(text.charAt(k - 1))
UtteranceBoundary(c, k) ==
    /\ calls[c].utt = "speaking"
    /\ k \in 1..Len(calls[c].text)
    /\ influences' = setMouthShape(morphIndex, influences,
                                   charShape(<<calls[c].text[k]>>), 100)
    /\ lastOp' = Op("boundary", 0, 0)
    /\ UNCHANGED <<phase, gesture, effect, model, loadState, morphIndex, visemes, now, synthRef, calls,
                   timers, muted>>

\* u.onend: stopMouth(). A cancelled utterance may still report its end,
\* depending on the browser.
UtteranceEnd(c) ==
    /\ calls[c].utt \in {"speaking", "cancelled"}
    /\ lastOp' = Op("stopMouth", activeSource, IF anyWeightSet THEN 1 ELSE 0)
    /\ stopMouth([calls EXCEPT ![c].utt = "none"])
    /\ UNCHANGED <<phase, gesture, effect, model, loadState, morphIndex, now, timers, muted>>

\* the mute button: turning mute on cancels the browser speech and calls
\* stopMouth()
MuteToggle ==
    /\ muted' = ~muted
    /\ IF ~muted
       THEN /\ lastOp' = Op("stopMouth", activeSource, IF anyWeightSet THEN 1 ELSE 0)
            /\ stopMouth(cancelUtterances(calls))
       ELSE /\ lastOp' = Op("unmute", 0, 0)
            /\ UNCHANGED <<visemes, influences, calls, synthRef>>
    /\ UNCHANGED <<phase, gesture, effect, model, loadState, morphIndex, now, timers>>

-----------------------------------------------------------------------------
(* Render loop *)

\* the search running from the first event instead of from the last
firstStarted(tl, el) ==
    IF \E k \in 1..Len(tl) : el >= tl[k].time
    THEN CHOOSE k \in 1..Len(tl) :
            el >= tl[k].time /\ \A j \in 1..(k - 1) : el < tl[j].time
    ELSE 0

\* index of the last event with elapsed >= time, 0 when there is none;
\* el is the elapsed time in the timeline's unit
lastStarted(tl, el) ==
    IF \E k \in 1..Len(tl) : el >= tl[k].time
    THEN CHOOSE k \in 1..Len(tl) :
            el >= tl[k].time /\ \A j \in (k + 1)..Len(tl) : el < tl[j].time
    ELSE 0

\* the mouth part of tick(): weights after the frame
tickInfluences(v, index, inf, t) ==
    LET el == (t - v.startedAt) * v.unit
        tl == v.timeline
        k == lastStarted(tl, el)
        afterKey == IF k = 0 THEN inf
                    ELSE IF el <= tl[k].time + tl[k].dur
                         THEN setMouthShape(index, inf, tl[k].shape, tl[k].value)
                         ELSE clearAllMouth(index, inf)
        last == tl[Len(tl)]
    IN  IF ~(v.active /\ Len(tl) > 0) THEN inf
        ELSE IF el > last.time + last.dur + 120 * v.unit
             THEN clearAllMouth(index, afterKey)
             ELSE afterKey

\* the same without the 120 ms of grace after the last event
tickActiveNoGrace(v, t) ==
    LET el == (t - v.startedAt) * v.unit
        tl == v.timeline
    IN  IF ~(v.active /\ Len(tl) > 0) THEN v.active
        ELSE ~(el > tl[Len(tl)].time + tl[Len(tl)].dur)

\* the mouth part of tick(): is the timeline still active after the frame
tickActive(v, t) ==
    LET el == (t - v.startedAt) * v.unit
        tl == v.timeline
    IN  IF ~(v.active /\ Len(tl) > 0) THEN v.active
        ELSE ~(el > tl[Len(tl)].time + tl[Len(tl)].dur + 120 * v.unit)

\* a frame that reads last.time without the test of v.timeline.length: on an
\* active timeline without events it throws before requesting the next frame
TickThrowsOnEmptyTimeline ==
    /\ effect.raf > 0
    /\ IF visemes.active /\ Len(visemes.timeline) = 0
       THEN /\ effect' = [effect EXCEPT !.raf = effect.raf - 1]
            /\ UNCHANGED <<influences, visemes>>
       ELSE /\ influences' = tickInfluences(visemes, morphIndex, influences, now)
            /\ visemes' = [visemes EXCEPT !.active = tickActive(visemes, now)]
            /\ effect' = [effect EXCEPT !.raf = (effect.raf - 1) + 1]
    /\ lastOp' = Op("tick", IF visemes.active /\ ~visemes'.active THEN 1 ELSE 0, 0)
    /\ UNCHANGED <<phase, gesture, model, loadState, morphIndex, now, synthRef, calls, timers,
                   muted>>

\* one frame of the requestAnimationFrame loop: the requested callback runs
\* with dt = clockRef.current.getDelta(), adds dt to both phases and, at its
\* end, requests the next one
Frame(dt) ==
    /\ effect.raf > 0
    /\ phase.glow + dt <= MaxPhase
    /\ phase' = [t |-> phase.t + dt, glow |-> phase.glow + dt]
    /\ influences' = tickInfluences(visemes, morphIndex, influences, now)
    /\ visemes' = [visemes EXCEPT !.active = tickActive(visemes, now)]
    /\ effect' = [effect EXCEPT !.raf = (effect.raf - 1) + 1]
    /\ lastOp' = Op("tick", IF visemes.active /\ ~visemes'.active THEN 1 ELSE 0, dt)
    /\ UNCHANGED <<gesture, model, loadState, morphIndex, now, synthRef, calls, timers,
                   muted>>

\* a frame for which the clock reports a delta of 0, as the specifications
\* take it that do not look at the phases
Tick == Frame(0)

\* time passes
Advance(d) ==
    /\ now + d <= MaxNow
    /\ now' = now + d
    /\ lastOp' = Op("advance", 0, 0)
    /\ UNCHANGED <<phase, gesture, effect, model, loadState, morphIndex, influences, visemes, synthRef,
                   calls, timers, muted>>

-----------------------------------------------------------------------------
(* Specification of the whole avatar driven by the chat page *)

Next ==
    \/ LoadSuccess
    \/ LoadError
    \/ \E c \in CallIds, text \in Texts : Say(c, text)
    \/ \E c \in CallIds : TokenResolved(c)
    \/ \E c \in CallIds, cause \in {"credential", "playback"} : SpeakRejected(c, cause)
    \/ \E c \in CallIds, id \in VisemeIds : VisemeReceived(c, id)
    \/ \E c \in CallIds, ok \in BOOLEAN : SpeakCompleted(c, ok)
    \/ \E d \in timers : ClearTimer(d)
    \/ \E c \in CallIds, k \in 1..3 : UtteranceBoundary(c, k)
    \/ \E c \in CallIds : UtteranceEnd(c)
    \/ MuteToggle
    \/ Tick
    \/ \E d \in TimeSteps : Advance(d)

Spec == Init /\ [][Next]_vars

-----------------------------------------------------------------------------
(* Specification of the actuator alone: every asset with up to MaxKeys     *)
(* targets named from NamePool on one mesh, and two assets of two meshes;  *)
(* setMouthShape and clearAllMouth are called with every shape and weight. *)

NamePool == { <<"A">>, <<"E">>, <<"I">>, <<"O">>, <<"U">>, n_viseme_aa, n_mouthOpen }

\* the dictionaries with at most MaxKeys keys, all different
Dictionaries ==
    UNION { { d \in [1..n -> NamePool] : \A p, q \in 1..n : p # q => d[p] # d[q] }
            : n \in 0..MaxKeys }

\* a target named like the first candidate of A but for the case of a letter
n_Viseme_aa == <<"V", "i", "s", "e", "m", "e", "_", "a", "a">>

ActuatorRigs ==
    { <<d>> : d \in Dictionaries }
        \cup { << <<<<"A">>, <<"O">>>>, <<n_mouthOpen>> >>,
               << <<<<"E">>, <<"U">>>>, <<<<"e">>, <<"u">>>> >>,
               << <<<<"E">>, <<"O">>, <<"U">>, n_mouthOpen>> >>,
               << <<n_Viseme_aa, <<"A">>>> >> }

Shapes == {"A", "E", "I", "O", "U"}

Intensities == {0, 95, 100}

\* setMouthShape(shape, value), as tick, setMouthByChar and visemeReceived call it
Apply(shape, value) ==
    /\ influences' = setMouthShape(morphIndex, influences, shape, value)
    /\ lastOp' = OpAgain("setMouthShape", shape, value)
    /\ UNCHANGED <<phase, gesture, effect, model, loadState, morphIndex, visemes, now, synthRef, calls,
                   timers, muted>>

\* setExpression(name), which is clearAllMouth()
SetExpression ==
    /\ influences' = clearAllMouth(morphIndex, influences)
    /\ lastOp' = OpAgain("clearAllMouth", 0, IF anyWeightSet THEN 1 ELSE 0)
    /\ UNCHANGED <<phase, gesture, effect, model, loadState, morphIndex, visemes, now, synthRef, calls,
                   timers, muted>>

InitActuator == InitWith(ActuatorRigs)

NextActuator ==
    \/ LoadSuccess
    \/ \E shape \in Shapes, value \in Intensities : Apply(shape, value)
    \/ SetExpression

SpecActuator == InitActuator /\ [][NextActuator]_vars

-----------------------------------------------------------------------------
(* Specification of the heuristic timeline alone: driveMouthStart with      *)
(* several texts and duration hints, setMouthByChar, stopMouth, and frames  *)
(* of the render loop every 350 ms.                                         *)

n_hello_world == <<"H", "e", "l", "l", "o", " ", "w", "o", "r", "l", "d">>

n_four_words == <<"a", " ", "e", " ", "i", " ", "o">>

\* fifty one-letter words, enough for the estimate to pass its upper limit
n_fifty_words == [k \in 1..99 |-> IF k % 2 = 1 THEN "a" ELSE " "]

\* the texts handed to driveMouthStart: empty, blank, two letters, no letter,
\* two words, four words, fifty words
TimelineTexts ==
    { <<>>, <<" ">>, <<"o", "k">>, <<"?", "!">>, n_hello_world, n_four_words,
      n_fifty_words }

\* totalMs as <<numerator, denominator>> in ms; denominator 0 is null / undefined
Hints == { <<0, 0>>, <<0, 1>>, <<1500, 1>> }

\* buildVisemeTimelineFromText(text, totalMs) for every text and hint explored
timelineTable ==
    [t \in TimelineTexts, h \in Hints |-> buildVisemeTimelineFromText(t, h[1], h[2])]

\* the characters handed to setMouthByChar
Chars == { <<"a">>, <<"K">>, <<>> }

\* the time between two observed frames
FrameSteps == {350}

\* driveMouthStart leaving the anchor of a timeline that is still active
driveMouthStartKeepsAnchor(v, tl, t) ==
    [timeline |-> tl.events, unit |-> tl.unit,
     startedAt |-> IF v.active THEN v.startedAt ELSE t, active |-> TRUE]

\* driveMouthStart(text, totalMs) at time t, tl being the timeline built from
\* the text: visemesRef.current (v before the call) is replaced as a whole
driveMouthStart(v, tl, t) ==
    [timeline |-> tl.events, unit |-> tl.unit, startedAt |-> t, active |-> TRUE]

DriveMouthStart(text, hint) ==
    /\ visemes' = driveMouthStart(visemes, timelineTable[text, hint], now)
    /\ lastOp' = Op("driveMouthStart", text,
                    <<hint[1], hint[2], IF visemes.active THEN 1 ELSE 0>>)
    /\ UNCHANGED <<phase, gesture, effect, model, loadState, morphIndex, influences, now, synthRef, calls,
                   timers, muted>>

\* setMouthByChar(ch): setMouthShape(shape of ch, 1.0)
SetMouthByChar(ch) ==
    /\ influences' = setMouthShape(morphIndex, influences, charShape(ch), 100)
    /\ lastOp' = Op("setMouthByChar", ch, 100)
    /\ UNCHANGED <<phase, gesture, effect, model, loadState, morphIndex, visemes, now, synthRef, calls,
                   timers, muted>>

\* stopMouth() called through the handle
StopMouth ==
    /\ lastOp' = Op("stopMouth", activeSource, IF anyWeightSet THEN 1 ELSE 0)
    /\ stopMouth(calls)
    /\ UNCHANGED <<phase, gesture, effect, model, loadState, morphIndex, now, timers, muted>>

\* time passes between two frames
Elapse(d) ==
    /\ now + d <= MaxTime
    /\ now' = now + d
    /\ lastOp' = Op("advance", 0, 0)
    /\ UNCHANGED <<phase, gesture, effect, model, loadState, morphIndex, influences, visemes, synthRef,
                   calls, timers, muted>>

NextTimeline ==
    \/ LoadSuccess
    \/ LoadError
    \/ \E text \in TimelineTexts, hint \in Hints : DriveMouthStart(text, hint)
    \/ \E ch \in Chars : SetMouthByChar(ch)
    \/ StopMouth
    \/ Tick
    \/ \E d \in FrameSteps : Elapse(d)

SpecTimeline == Init /\ [][NextTimeline]_vars

-----------------------------------------------------------------------------
(* Specification of the live session with its timers: the chat page and the  *)
(* avatar as in Spec, the clock observed every 70 ms up to MaxHold, and no   *)
(* viseme event so late that its timer would fall beyond that horizon. The   *)
(* event loop runs every timer that is due, and time passes.                 *)

\* the hold of a viseme shape: setTimeout(() => clearAllMouth(), 70)
HoldSteps == {70}

\* a viseme event of call c whose timer falls within the explored time
VisemeInTime(c, id) ==
    /\ now + 70 <= MaxHold
    /\ VisemeReceived(c, id)

\* time passes by the hold of a viseme
Pass(d) ==
    /\ now + d <= MaxHold
    /\ now' = now + d
    /\ lastOp' = Op("advance", 0, 0)
    /\ UNCHANGED <<phase, gesture, effect, model, loadState, morphIndex, influences, visemes, synthRef,
                   calls, timers, muted>>

\* a timer that is due fires
TimerFires == \E d \in timers : ClearTimer(d)

TimePasses == \E d \in HoldSteps : Pass(d)

NextViseme ==
    \/ LoadSuccess
    \/ LoadError
    \/ \E c \in CallIds, text \in Texts : Say(c, text)
    \/ \E c \in CallIds : TokenResolved(c)
    \/ \E c \in CallIds, cause \in {"credential", "playback"} : SpeakRejected(c, cause)
    \/ \E c \in CallIds, id \in VisemeIds : VisemeInTime(c, id)
    \/ \E c \in CallIds, ok \in BOOLEAN : SpeakCompleted(c, ok)
    \/ TimerFires
    \/ Tick
    \/ TimePasses

SpecViseme ==
    /\ Init
    /\ [][NextViseme]_vars
    /\ WF_vars(TimerFires)
    /\ WF_vars(TimePasses)

-----------------------------------------------------------------------------
(* Specification of the viseme handler alone: speak() calls whose sessions   *)
(* report every viseme id of the speech engine, and the timers they set.     *)

\* e.visemeId: the ids of the engine are 0 (silence) to 21; 22 is outside
AzureVisemeIds == 0..22

NextBuckets ==
    \/ LoadSuccess
    \/ \E c \in CallIds, text \in Texts : Say(c, text)
    \/ \E c \in CallIds : TokenResolved(c)
    \/ \E c \in CallIds, id \in AzureVisemeIds : VisemeInTime(c, id)
    \/ \E c \in CallIds, ok \in BOOLEAN : SpeakCompleted(c, ok)
    \/ TimerFires
    \/ TimePasses

SpecBuckets == Init /\ [][NextBuckets]_vars

-----------------------------------------------------------------------------
(* Specification of the load effect: it runs at mount and again whenever one *)
(* of its dependencies (avatarUrl, size, camera, listeningGlow, ...) changes, *)
(* its cleanup running in between and at unmount. The refs (morphIndexRef,   *)
(* visemesRef, synthRef, rafRef) belong to the component and outlive a run.  *)

\* the assets a re-run loads: the same url again, or another one
ReloadRigs == MainRigs

\* the weights of the meshes of a freshly loaded asset
freshInfluences(asset) ==
    [m \in 1..Len(asset) |-> [i \in 0..(Len(asset[m]) - 1) |-> 0]]

\* the cleanup of the effect on the frame callback:
\* cancelAnimationFrame(rafRef.current) cancels the callback requested last
cancelFrame(e) == [e EXCEPT !.raf = IF e.raf > 0 THEN e.raf - 1 ELSE 0]

\* the cleanup of the effect on the synthesizers: synthRef.current?.close(),
\* synthRef.current itself is left as it is
cleanupSynth(cs, s) == closeSynth(cs, s)

\* a dependency changed: the cleanup of the last run, then the effect body
\* again: a new scene, loader.load(avatarUrl) and a new frame callback. A load
\* of the last run that is still in flight stays in flight.
Reload(asset) ==
    /\ effect.mounted
    /\ effect.runs < MaxRuns
    /\ calls' = cleanupSynth(calls, synthRef)
    /\ model' = model \o asset
    /\ influences' = influences \o freshInfluences(asset)
    /\ loadState' = "pending"
    /\ effect' = [mounted |-> TRUE,
                  raf |-> cancelFrame(effect).raf + 1,
                  runs |-> effect.runs + 1,
                  first |-> Len(model) + 1,
                  stale |-> IF loadState = "pending"
                            THEN effect.stale
                                    \cup {[first |-> effect.first, last |-> Len(model)]}
                            ELSE effect.stale]
    /\ lastOp' = Op("reload", 0, 0)
    /\ UNCHANGED <<phase, gesture, morphIndex, visemes, now, synthRef, timers, muted>>

\* the component unmounts: the cleanup only
Unmount ==
    /\ effect.mounted
    /\ calls' = cleanupSynth(calls, synthRef)
    /\ effect' = [cancelFrame(effect) EXCEPT !.mounted = FALSE]
    /\ lastOp' = Op("unmount", 0, 0)
    /\ UNCHANGED <<phase, gesture, model, loadState, morphIndex, influences, visemes,
                   now, synthRef, timers, muted>>

\* the success callback of a load started by an earlier run: it registers
\* the morph targets of its meshes and calls setExpression like any other
StaleLoadSuccess(l) ==
    /\ l \in effect.stale
    /\ morphIndex' = traverse(morphIndex, SubSeq(model, 1, l.last), l.first)
    /\ influences' = clearAllMouth(morphIndex', influences)
    /\ effect' = [effect EXCEPT !.stale = effect.stale \ {l}]
    /\ lastOp' = Op("staleLoad", 0, 0)
    /\ UNCHANGED <<phase, gesture, model, loadState, visemes, now, synthRef, calls,
                   timers, muted>>

\* the error callback of a load started by an earlier run
StaleLoadError(l) ==
    /\ l \in effect.stale
    /\ effect' = [effect EXCEPT !.stale = effect.stale \ {l}]
    /\ lastOp' = Op("staleLoadError", 0, 0)
    /\ UNCHANGED <<phase, gesture, model, loadState, morphIndex, influences, visemes,
                   now, synthRef, calls, timers, muted>>

NextEffect ==
    \/ LoadSuccess
    \/ LoadError
    \/ \E asset \in ReloadRigs : Reload(asset)
    \/ Unmount
    \/ \E l \in effect.stale : StaleLoadSuccess(l)
    \/ \E l \in effect.stale : StaleLoadError(l)
    \/ \E c \in CallIds, text \in EffectTexts : Say(c, text)
    \/ \E c \in CallIds : TokenResolved(c)
    \/ \E c \in CallIds, cause \in {"credential", "playback"} : SpeakRejected(c, cause)
    \/ \E c \in CallIds, ok \in BOOLEAN : SpeakCompleted(c, ok)
    \/ Tick

SpecEffect == Init /\ [][NextEffect]_vars

-----------------------------------------------------------------------------
(* Specification of the gestures of the VRM avatar, whose handle has         *)
(* wave: () => startWave() and nod: () => startNod()                         *)

\* the default arguments of startWave(seconds = 2) and startNod(seconds =
\* 1.2), times 1000
gestureMs == [wave |-> 2000, nod |-> 1200]

\* gestureRef.current[g] = true; setTimeout(() => (gestureRef.current[g] =
\* false), seconds * 1000)
trigger(gs, g, t) ==
    [gs EXCEPT ![g] = TRUE,
               !.timers = @ \cup {[flag |-> g, at |-> t + gestureMs[g]]},
               !.started[g] = t,
               !.raised[g] = IF gs[g] THEN @ ELSE t]

\* is there room for the timer a trigger of g sets now
roomForTimer(g) ==
    \/ [flag |-> g, at |-> now + gestureMs[g]] \in gesture.timers
    \/ Cardinality(gesture.timers) < MaxPending

\* startWave()
startWave ==
    /\ roomForTimer("wave")
    /\ gesture' = trigger(gesture, "wave", now)
    /\ lastOp' = Op("startWave", 0, 0)
    /\ UNCHANGED <<phase, effect, model, loadState, morphIndex, influences, visemes,
                   now, synthRef, calls, timers, muted>>

\* startNod()
startNod ==
    /\ roomForTimer("nod")
    /\ gesture' = trigger(gesture, "nod", now)
    /\ lastOp' = Op("startNod", 0, 0)
    /\ UNCHANGED <<phase, effect, model, loadState, morphIndex, influences, visemes,
                   now, synthRef, calls, timers, muted>>

\* the callback of a timer of startWave / startNod runs: its flag is reset
GestureExpires(tm) ==
    /\ tm \in gesture.timers
    /\ tm.at <= now
    /\ gesture' = [gesture EXCEPT ![tm.flag] = FALSE, !.timers = @ \ {tm}]
    /\ lastOp' = Op("gestureExpires", 0, 0)
    /\ UNCHANGED <<phase, effect, model, loadState, morphIndex, influences, visemes,
                   now, synthRef, calls, timers, muted>>

\* the steps of time between the calls of the handle
WaitSteps == {400}

\* time passes
Wait(d) ==
    /\ now + d <= MaxWait
    /\ now' = now + d
    /\ lastOp' = Op("wait", 0, 0)
    /\ UNCHANGED <<phase, gesture, effect, model, loadState, morphIndex, influences,
                   visemes, synthRef, calls, timers, muted>>

NextGesture ==
    \/ startWave
    \/ startNod
    \/ \E tm \in gesture.timers : GestureExpires(tm)
    \/ \E d \in WaitSteps : Wait(d)

SpecGesture == Init /\ [][NextGesture]_vars

-----------------------------------------------------------------------------
(* Specification of the idle motion: the phases tRef and glowTRef under the  *)
(* frames of the render loop and the calls of the handle                     *)

\* the values of clockRef.current.getDelta(), in ms: a frame at 60 Hz and one
\* at 30 Hz
FrameDeltas == {16, 33}

\* the text and hint handed to driveMouthStart
MotionTexts == { <<"o", "k">> }

MotionHints == { <<0, 0>> }

\* wave() called through the handle
Wave ==
    /\ phase' = wave(phase)
    /\ lastOp' = Op("wave", 0, 0)
    /\ UNCHANGED <<gesture, effect, model, loadState, morphIndex, influences, visemes,
                   now, synthRef, calls, timers, muted>>

\* nod() called through the handle
Nod ==
    /\ phase' = nod(phase)
    /\ lastOp' = Op("nod", 0, 0)
    /\ UNCHANGED <<gesture, effect, model, loadState, morphIndex, influences, visemes,
                   now, synthRef, calls, timers, muted>>

NextMotion ==
    \/ LoadSuccess
    \/ Wave
    \/ Nod
    \/ \E text \in MotionTexts, hint \in MotionHints : DriveMouthStart(text, hint)
    \/ StopMouth
    \/ \E c \in CallIds, text \in MotionTexts : Say(c, text)
    \/ \E c \in CallIds : TokenResolved(c)
    \/ \E c \in CallIds, ok \in BOOLEAN : SpeakCompleted(c, ok)
    \/ \E dt \in FrameDeltas : Frame(dt)

SpecMotion == Init /\ [][NextMotion]_vars

-----------------------------------------------------------------------------
(* Specification of the unmount with callbacks pending: the load of the     *)
(* asset, a live session and the 70 ms timers of its viseme events          *)

NextTeardown ==
    \/ LoadSuccess
    \/ LoadError
    \/ \E c \in CallIds, text \in EffectTexts : Say(c, text)
    \/ \E c \in CallIds : TokenResolved(c)
    \/ \E c \in CallIds, id \in VisemeIds : VisemeInTime(c, id)
    \/ \E c \in CallIds, ok \in BOOLEAN : SpeakCompleted(c, ok)
    \/ TimerFires
    \/ TimePasses
    \/ Unmount
    \/ Tick

SpecTeardown == Init /\ [][NextTeardown]_vars

-----------------------------------------------------------------------------
(* Specification of viseme events that follow each other within the 70 ms   *)
(* of their clear timers, next to setMouthByChar and stopMouth              *)

\* the time between two events: half the delay of the clear timer
OverlapSteps == {35}

\* the viseme ids of the events: silence and an open vowel
OverlapIds == {0, 2}

\* the character handed to setMouthByChar
OverlapChars == { <<"a">> }

\* a viseme event of call c, its timer pending next to that of an earlier one
VisemeOverlapping(c, id) ==
    /\ now + 70 <= MaxHold
    /\ visemeReceived(c, id, MaxOverlap)

NextOverlap ==
    \/ LoadSuccess
    \/ \E c \in CallIds, text \in MotionTexts : Say(c, text)
    \/ \E c \in CallIds : TokenResolved(c)
    \/ \E c \in CallIds, id \in OverlapIds : VisemeOverlapping(c, id)
    \/ \E ch \in OverlapChars : SetMouthByChar(ch)
    \/ StopMouth
    \/ TimerFires
    \/ \E d \in OverlapSteps : Pass(d)

SpecOverlap == Init /\ [][NextOverlap]_vars

-----------------------------------------------------------------------------
(* Specification of the outcome of speak(): the credential fetch settles,   *)
(* and the engine calls back for a session that is open; for a session that *)
(* was closed under it the callback may or may not come                     *)

\* getToken() settles, or the configuration throws
TokenSettles(c) ==
    \/ TokenResolved(c)
    \/ \E cause \in {"credential", "playback"} : SpeakRejected(c, cause)

\* speakSsmlAsync of an open session calls one of its callbacks
EngineCallsBack(c) ==
    /\ calls[c].open
    /\ \E ok \in BOOLEAN : SpeakCompleted(c, ok)

\* stopMouth() called through the handle, recorded without what it found
StopMouthCalled ==
    /\ lastOp' = Op("stopMouthCalled", 0, 0)
    /\ stopMouth(calls)
    /\ UNCHANGED <<phase, gesture, effect, model, loadState, morphIndex, now, timers,
                   muted>>

NextSpeak ==
    \/ LoadSuccess
    \/ \E c \in CallIds, text \in MotionTexts : Say(c, text)
    \/ \E c \in CallIds : TokenSettles(c)
    \/ \E c \in CallIds, ok \in BOOLEAN : SpeakCompleted(c, ok)
    \/ StopMouthCalled
    \/ Unmount

SpecSpeak ==
    /\ Init
    /\ [][NextSpeak]_vars
    /\ \A c \in CallIds : WF_vars(TokenSettles(c)) /\ WF_vars(EngineCallsBack(c))

-----------------------------------------------------------------------------
(* Helpers of the properties *)

\* the weight of a registered channel
weightOf(ch) == influences[ch.mesh][ch.idx]

\* the channels registered under label l
channelsOf(l) == { morphIndex[l][k] : k \in 1..Len(morphIndex[l]) }

registeredChannels == UNION { channelsOf(l) : l \in Labels }

\* a later say() call has been issued
superseded(c) == \E d \in CallIds : d > c /\ calls[d].pc # "idle"

\* the asset names no vowel target, only generic mouth-open targets
degradedAsset ==
    /\ \E m \in 1..Len(model) : Len(model[m]) > 0
    /\ \A m \in 1..Len(model) : \A p \in 1..Len(model[m]) :
            model[m][p] \in {n_mouthOpen, n_MouthOpen, n_mouth_open}

-----------------------------------------------------------------------------
(* Properties *)

\* C1: at most one mouth-animation source is active: the heuristic timeline
\* is never active while a live speech session is stored in synthRef.
C1_OneActiveSource == ~(visemes.active /\ synthRef # 0)

\* C2: at most one live speech session (a synthesizer created and not yet
\* closed) exists at any time, for every interleaving of say() calls.
C2_OneLiveSession == Cardinality({c \in CallIds : calls[c].open}) <= 1

\* C3: once a later speak() has been issued, no viseme event and no completion
\* handler of an earlier session changes the mouth channel weights. The step
\* of a viseme event is attributed to call c when c holds the only open
\* synthesizer, the step of a completion to the call that becomes done.
C3_OnlyLatestSessionDrivesMouth ==
    [][\A c \in CallIds :
        (/\ superseded(c)
         /\ calls[c].pc = "speaking"
         /\ \/ /\ lastOp'.op = "viseme"
               /\ calls[c].open
               /\ \A d \in CallIds \ {c} : ~calls[d].open
            \/ /\ lastOp'.op = "speakCompleted"
               /\ calls'[c].pc = "done")
        => influences' = influences]_vars

\* C4: right after stopMouth() returns, every registered channel has weight 0,
\* the timeline is inactive and no live session handle remains, whatever was
\* active when it was called.
C4_StopMouthLeavesNothingActive ==
    lastOp.op = "stopMouth" =>
        /\ \A ch \in registeredChannels : weightOf(ch) = 0
        /\ ~visemes.active
        /\ synthRef = 0

\* stopMouth() was called while a live session with an applied shape was
\* open and another speak() was awaiting its credential
C4_Witness ==
    /\ lastOp.op = "stopMouth"
    /\ lastOp.a = "live"
    /\ lastOp.b = 1
    /\ registeredChannels # {}
    /\ \E c \in CallIds : calls[c].pc = "token"

\* C5: a credential failure, a playback failure and a synthesis failure all
\* give the caller the same failed outcome, so that say runs the fallback.
C5_EveryFailureFallsBack ==
    \A c \in CallIds :
        (calls[c].pc = "done" /\ calls[c].cause \in {"credential", "playback", "synthesis"})
            => (calls[c].outcome = "rejected" /\ calls[c].fallback)

\* C6: whenever a speak() request reaches a terminal case, all registered
\* mouth channel weights are 0 at that point.
C6_TerminalCaseClearsMouth ==
    [][\A c \in CallIds :
        (calls[c].pc # "done" /\ calls'[c].pc = "done")
            => allWeightsZero(influences')]_vars

\* C7: after apply(shape, intensity) on a registry that has channels for the
\* shape, every channel registered under the shape has weight intensity.
C7_ApplySetsShapeChannels ==
    (lastOp.op = "setMouthShape" /\ channelsOf(lastOp.a) # {})
        => \A ch \in channelsOf(lastOp.a) : weightOf(ch) = lastOp.b

\* C8: after apply(shape, x) every vowel channel under a label other than the
\* shape (and not itself a channel of the shape) has weight 0, also when the
\* shape has no channel and is folded onto mouthOpen.
C8_MutualExclusion ==
    lastOp.op = "setMouthShape" =>
        \A l \in Shapes \ {lastOp.a} :
            \A ch \in channelsOf(l) \ channelsOf(lastOp.a) : weightOf(ch) = 0

C10_ApplyIdempotent ==
    \A shape \in Shapes, value \in Intensities :
        setMouthShape(morphIndex,
                      setMouthShape(morphIndex, influences, shape, value),
                      shape, value)
            = setMouthShape(morphIndex, influences, shape, value)

\* apply was called twice in a row with the same non-zero weight on a
\* registry in which one target is registered under two labels
C10_Witness ==
    /\ lastOp.op = "setMouthShape"
    /\ lastOp.again
    /\ anyWeightSet
    /\ \E l1, l2 \in Labels : l1 # l2 /\ channelsOf(l1) \cap channelsOf(l2) # {}

\* C11: clearAllMouth() leaves every registered channel (vowels and
\* mouthOpen) at weight 0 from every reachable weight state, and clearing
\* again changes nothing.
C11_ClearZeroesEveryChannel ==
    LET cleared == clearAllMouth(morphIndex, influences)
    IN  /\ lastOp.op = "clearAllMouth" =>
                \A ch \in registeredChannels : weightOf(ch) = 0
        /\ \A ch \in registeredChannels : cleared[ch.mesh][ch.idx] = 0
        /\ clearAllMouth(morphIndex, cleared) = cleared

\* clearAllMouth() was called while a weight was set, on a registry whose
\* mouthOpen channel is registered under no vowel label
C11_Witness ==
    /\ lastOp.op = "clearAllMouth"
    /\ lastOp.b = 1
    /\ channelsOf("mouthOpen") # {}
    /\ \A l \in Shapes : channelsOf(l) \cap channelsOf("mouthOpen") = {}

\* C12: with an empty registry (model pending, load failed, or no matching
\* target) no call of the handle, of the viseme handler or of tick changes a
\* weight, and after a load failure the frame loop can still run.
C12_EmptyRegistryIsInert ==
    /\ registeredChannels = {} => allWeightsZero(influences)
    /\ loadState = "failed" => ENABLED Tick

\* a frame applied an event of the active timeline on a loaded model that
\* has no matching target
C12_Witness ==
    /\ lastOp.op = "tick"
    /\ loadState = "loaded"
    /\ registeredChannels = {}
    /\ visemes.active
    /\ Len(visemes.timeline) > 0
    /\ now > visemes.startedAt

C14_DurationIsClampedEstimateOrHint ==
    (lastOp.op = "driveMouthStart" /\ Len(visemes.timeline) > 0) =>
        LET ev == visemes.timeline
            words == wordCount(cleanText(lastOp.a))
            hint == lastOp.b
            \* the duration in ms is total / scale (dur is 88 hundredths of
            \* a slot, the unit a multiple of 100)
            total == Len(ev) * (ev[1].dur \div 88)
            scale == visemes.unit \div 100
            raw == words * 3672
            clamped == IF raw < 14000 THEN 14000
                       ELSE IF raw > 180000 THEN 180000 ELSE raw
        IN  IF hint[2] = 0
            THEN /\ 1400 * scale <= total
                 /\ total <= 18000 * scale
                 /\ total * 10 = clamped * scale
                 /\ lastOp.a = n_hello_world => total = 1400 * scale
            ELSE total * hint[2] = hint[1] * scale

\* a timeline was built without a hint from a text whose estimate lies
\* strictly between the two limits
C14_Witness ==
    /\ lastOp.op = "driveMouthStart"
    /\ lastOp.b[2] = 0
    /\ Len(visemes.timeline) = 4
    /\ lastOp.a = n_four_words

\* C15: a frame on an active timeline takes the last event whose time is at
\* most the elapsed time now - startedAt; within [time, time + dur] it applies
\* that event's shape and value, otherwise it clears the mouth. Half a slot
\* after the start (a slot is dur / 0.88) it applies the first event's shape.
C15_TickAppliesLastStartedEvent ==
    [][(lastOp'.op = "tick" /\ visemes.active /\ Len(visemes.timeline) > 0) =>
        LET tl == visemes.timeline
            el == (now - visemes.startedAt) * visemes.unit
            started == {i \in 1..Len(tl) : tl[i].time <= el}
            k == CHOOSE i \in started : \A j \in started : j <= i
        IN  /\ started # {}
            /\ IF el <= tl[k].time + tl[k].dur
               THEN influences' =
                        setMouthShape(morphIndex, influences, tl[k].shape, tl[k].value)
               ELSE \A ch \in registeredChannels : influences'[ch.mesh][ch.idx] = 0
            /\ (el > 0 /\ el = (tl[1].dur \div 88) * 50) =>
                    influences' =
                        setMouthShape(morphIndex, influences, tl[1].shape, tl[1].value)
    ]_vars

\* a frame applied the shape of a later event than the first on a model
\* with mouth targets
C15_Witness ==
    /\ lastOp.op = "tick"
    /\ visemes.active
    /\ Len(visemes.timeline) > 1
    /\ visemes.timeline[2].time > 0
    /\ (now - visemes.startedAt) * visemes.unit >= visemes.timeline[2].time
    /\ \E ch \in registeredChannels : weightOf(ch) = 95

\* C16: a frame with elapsed beyond the last event's end plus 120 ms
\* deactivates the timeline and clears the mouth; up to that bound a frame
\* leaves the timeline active; a frame on an inactive timeline leaves it
\* inactive and changes no weight.
C16_TimelineExpiresAfterGrace ==
    [][lastOp'.op = "tick" =>
        IF visemes.active
        THEN Len(visemes.timeline) > 0 =>
                LET tl == visemes.timeline
                    last == tl[Len(tl)]
                    el == (now - visemes.startedAt) * visemes.unit
                IN  IF el > last.time + last.dur + 120 * visemes.unit
                    THEN /\ ~visemes'.active
                         /\ \A ch \in registeredChannels :
                                influences'[ch.mesh][ch.idx] = 0
                    ELSE visemes'.active
        ELSE ~visemes'.active /\ influences' = influences
    ]_vars

\* a frame deactivated the timeline of a loaded model with mouth targets
C16_Witness ==
    /\ lastOp.op = "tick"
    /\ lastOp.a = 1
    /\ ~visemes.active
    /\ Len(visemes.timeline) > 0
    /\ registeredChannels # {}

\* C17: every started timeline, also one built from an empty or blank text,
\* ends by itself under continued frames: a frame later than the end of its
\* last event (0 for a timeline without events) plus the 120 ms of grace
\* leaves it inactive, and the frame that deactivates it leaves every
\* registered channel at 0.
C17_TimelineEndsByItself ==
    lastOp.op = "tick" =>
        LET tl == visemes.timeline
            el == (now - visemes.startedAt) * visemes.unit
            end == IF Len(tl) > 0 THEN tl[Len(tl)].time + tl[Len(tl)].dur ELSE 0
        IN  /\ el > end + 120 * visemes.unit => ~visemes.active
            /\ lastOp.a = 1 => \A ch \in registeredChannels : weightOf(ch) = 0

\* C18: driveMouthStart replaces the stored timeline and anchor as a whole:
\* right after it the stored events are exactly those built from its text
\* and hint, the anchor is the time of the call and the timeline is active;
\* and the stored timeline is never a mixture: in every state it is empty or
\* the timeline of one text and hint, which is all a later frame reads.
C18_StartReplacesTimeline ==
    /\ lastOp.op = "driveMouthStart" =>
            LET tl == timelineTable[lastOp.a, <<lastOp.b[1], lastOp.b[2]>>]
            IN  /\ visemes.timeline = tl.events
                /\ visemes.unit = tl.unit
                /\ visemes.startedAt = now
                /\ visemes.active
    /\ \/ visemes.timeline = <<>>
       \/ \E t \in TimelineTexts, h \in Hints :
                /\ visemes.timeline = timelineTable[t, h].events
                /\ visemes.unit = timelineTable[t, h].unit
    /\ visemes.startedAt <= now

\* driveMouthStart was called with a text that has letters while an earlier
\* timeline, anchored earlier, was still active
C18_Witness ==
    /\ lastOp.op = "driveMouthStart"
    /\ lastOp.b[3] = 1
    /\ now > 0
    /\ Len(visemes.timeline) > 1

\* C19: while a live session is stored in synthRef, a frame changes no mouth
\* weight: it neither applies nor clears a timeline shape.
C19_TickIdleDuringLiveSession ==
    [][(lastOp'.op = "tick" /\ synthRef # 0) => influences' = influences]_vars

\* C20: after a frame that found no live session (no synthesizer stored or
\* open) and no active timeline, every registered channel is at 0, also when
\* setMouthByChar set a shape after the timeline had expired.
C20_TickClearsWhenNothingActive ==
    (/\ lastOp.op = "tick"
     /\ synthRef = 0
     /\ \A c \in CallIds : ~calls[c].open
     /\ ~visemes.active)
        => \A ch \in registeredChannels : weightOf(ch) = 0

\* C21: a viseme event applies its mapped shape at once and leaves a timer
\* pending 70 ms later, and the shape does not stick: after every viseme
\* event the mouth weights are all 0 again at some later point.
C21_VisemeShapeNeverSticks ==
    /\ [](lastOp.op = "viseme" => (now + 70) \in timers)
    /\ (lastOp.op = "viseme") ~> allWeightsZero(influences)

\* a viseme event set a weight on a model with mouth targets
C21_Witness ==
    /\ lastOp.op = "viseme"
    /\ anyWeightSet
    /\ (now + 70) \in timers

\* C22: setExpression(name) leaves every mouth channel weight (A, E, I, O, U,
\* mouthOpen) as it was, for every name and also while a shape is applied.
C22_SetExpressionKeepsMouth ==
    [][lastOp'.op = "clearAllMouth" =>
        \A ch \in registeredChannels :
            influences'[ch.mesh][ch.idx] = influences[ch.mesh][ch.idx]]_vars

\* C23: once the model requested by the last run of the load effect is
\* loaded, the registry holds exactly the channels discovered on that model:
\* no channel of a model loaded by an earlier run and no entry twice.
C23_RegistryIsThatOfLoadedModel ==
    loadState = "loaded" => morphIndex = traverse(EmptyIndex, model, effect.first)

\* C24: the cleanup of the load effect cancels the frame callback and closes
\* the live session: right after it no synthesizer is open; once unmounted no
\* frame callback is left, so no tick runs again; and at no time is more
\* than one frame callback requested (a re-run starts exactly one loop).
C24_TeardownStopsLoopAndSessions ==
    /\ lastOp.op \in {"unmount", "reload"} => \A c \in CallIds : ~calls[c].open
    /\ ~effect.mounted => (effect.raf = 0 /\ ~ENABLED Tick)
    /\ effect.raf <= 1
    /\ effect.mounted => effect.raf = 1

\* C25: while the component is mounted a frame callback is always requested
\* and can run: no credential failure, synthesis error, load failure, empty
\* registry or empty timeline stops the loop, and a frame does not wait for
\* a pending credential fetch or synthesis.
C25_RenderLoopNeverInterrupted ==
    effect.mounted => (effect.raf = 1 /\ ENABLED Tick)

\* a frame ran after a load failure, with the empty timeline of a blank reply
\* active after a failed speak() and another speak() awaiting its credential
C25_Witness ==
    /\ lastOp.op = "tick"
    /\ effect.mounted
    /\ loadState = "failed"
    /\ visemes.active
    /\ visemes.timeline = <<>>
    /\ \E c \in CallIds : calls[c].pc = "done" /\ calls[c].outcome = "rejected"
    /\ \E c \in CallIds : calls[c].pc = "token"

\* C26: on every mesh each label is resolved over all its candidate names
\* with the precedence exact match > match ignoring case > substring match
\* ignoring case: a label has a channel on the mesh exactly when some target
\* matches some candidate, it has one channel only, and that channel is a
\* target of the best class of match that occurs on the mesh.
C26_DiscoverPrecedence ==
    loadState = "loaded" =>
        \A m \in 1..Len(model) : \A l \in Labels :
            LET dict == model[m]
                cands == Candidates(l)
                exactKeys == {p \in 1..Len(dict) :
                                \E c \in 1..Len(cands) : dict[p] = cands[c]}
                sameKeys == {p \in 1..Len(dict) :
                                \E c \in 1..Len(cands) :
                                    toLowerCase(dict[p]) = toLowerCase(cands[c])}
                subKeys == {p \in 1..Len(dict) :
                                \E c \in 1..Len(cands) :
                                    includes(toLowerCase(dict[p]), toLowerCase(cands[c]))}
                best == IF exactKeys # {} THEN exactKeys
                        ELSE IF sameKeys # {} THEN sameKeys ELSE subKeys
                chosen == {k \in 1..Len(morphIndex[l]) : morphIndex[l][k].mesh = m}
            IN  /\ subKeys = {} => chosen = {}
                /\ subKeys # {} =>
                        /\ Cardinality(chosen) = 1
                        /\ \A k \in chosen : (morphIndex[l][k].idx + 1) \in best

C28_VowelsMapAndConsonantsAlternate ==
    lastOp.op = "driveMouthStart" =>
        LET chars == lettersOf(cleanText(lastOp.a))
            ev == visemes.timeline
            isVowel(k) == toLowerChar(chars[k]) \in {"a", "e", "i", "o", "u"}
            cons == {k \in 1..Len(ev) : ~isVowel(k)}
        IN  /\ \A k \in 1..Len(ev) :
                    isVowel(k) => ev[k].shape = toUpperChar(toLowerChar(chars[k]))
            /\ \A j, k \in cons :
                    (j < k /\ \A i \in cons : ~(j < i /\ i < k))
                        => ev[j].shape # ev[k].shape

\* C29: the built timeline is empty for an empty or blank text, has exactly
\* 3 placeholder events for a text that is not blank but has no letter, and
\* otherwise has exactly one event per letter of the text; the number the
\* duration is divided by is never 0.
C29_EventCount ==
    lastOp.op = "driveMouthStart" =>
        LET text == lastOp.a
            blank == \A k \in 1..Len(text) : isSpace(text[k])
            letters == Cardinality({k \in 1..Len(text) : isLetter(text[k])})
            ev == visemes.timeline
        IN  /\ blank => ev = <<>>
            /\ (~blank /\ letters = 0) =>
                    (Len(ev) = 3 /\ \A k \in 1..3 : ev[k].shape = "A")
            /\ letters > 0 => Len(ev) = letters
            /\ visemes.unit > 0

\* a text of two characters that are no letters was built
C29_Witness ==
    /\ lastOp.op = "driveMouthStart"
    /\ lastOp.a = <<"?", "!">>
    /\ Len(visemes.timeline) = 3

\* C30: the viseme handler applies, for every raw id, the one shape of the
\* bucket table {2,3,13,14} -> A, {1,5,7} -> E, {8,9} -> I, {4,10,15} -> O,
\* {11,12} -> U; every other id (the silence id 0, 6, and the ids above 15)
\* gives the default shape I, the neutral shape of the handler.
C30_BucketTable ==
    [][lastOp'.op = "viseme" =>
        LET id == lastOp'.a
            shape == IF id \in {2, 3, 13, 14} THEN "A"
                     ELSE IF id \in {1, 5, 7} THEN "E"
                     ELSE IF id \in {8, 9} THEN "I"
                     ELSE IF id \in {4, 10, 15} THEN "O"
                     ELSE IF id \in {11, 12} THEN "U"
                     ELSE "I"
        IN  /\ mapAzureVisemeToShape(id) = shape
            /\ influences' = setMouthShape(morphIndex, influences, shape, 100)
    ]_vars

\* an id above 15 was reported on a model with a target per vowel, and the
\* channel of I is fully open
C30_Witness ==
    /\ lastOp.op = "viseme"
    /\ lastOp.a > 15
    /\ channelsOf("I") # {}
    /\ \A ch \in channelsOf("I") : weightOf(ch) = 100
    /\ channelsOf("A") \cap channelsOf("I") = {}

\* C31: a gesture that became triggered stays triggered for its fixed
\* duration (wave 2 s, nod 1.2 s) before it returns to idle: no flag is reset
\* earlier than that after it was raised.
C31_GestureHoldsItsDuration ==
    [][\A g \in {"wave", "nod"} :
          (gesture[g] /\ ~gesture'[g]) => now >= gesture.raised[g] + gestureMs[g]]_vars

\* C32: every frame adds its clock delta to the phase of the idle sway and to
\* the phase of the listening pulse, whatever the timeline and the live
\* session are; wave(), nod(), driveMouthStart(), stopMouth() and the opening
\* of a live session by speak() leave both phases as they are.
C32_PhasesAdvanceAndAreNotReset ==
    [][/\ lastOp'.op = "tick" =>
            phase' = [t |-> phase.t + lastOp'.b, glow |-> phase.glow + lastOp'.b]
       /\ lastOp'.op \in {"wave", "nod", "driveMouthStart", "stopMouth", "tokenResolved"}
            => phase' = phase]_vars

\* C33: once the component is torn down, no pending callback mutates the
\* avatar: neither a 70 ms clear timer of a viseme event, nor the expiry timer
\* of a gesture, nor the completion callback of the model load changes a
\* weight, a gesture flag or the registry.
C33_NoCallbackMutatesAfterTeardown ==
    [][(~effect.mounted /\ lastOp'.op \in {"clearTimer", "gestureExpires", "load", "staleLoad"})
          => (influences' = influences /\ morphIndex' = morphIndex
                /\ gesture' = gesture)]_vars

\* C34: the completion or error callback of a session never resets the handle
\* of another session: when synthRef holds a synthesizer that is still open
\* after the callback of some call ran, synthRef still holds it.
C34_CallbackKeepsHandleOfCurrentSession ==
    [][(lastOp'.op = "speakCompleted" /\ synthRef # 0 /\ calls'[synthRef].open)
          => synthRef' = synthRef]_vars

\* C35: a clear timer never removes a shape that is younger than 70 ms: when
\* a firing timer takes the weights to zero, no timer of a later viseme event
\* is still short of its deadline, and the shape was not applied by a viseme
\* event or by setMouthByChar in the step right before.
C35_TimerNeverClearsYoungerShape ==
    [][(lastOp'.op = "clearTimer" /\ anyWeightSet /\ allWeightsZero(influences'))
          => /\ \A d \in timers' : d <= now
             /\ lastOp.op \notin {"viseme", "setMouthByChar"}]_vars

\* C36: every speak() call that was issued eventually has its outcome: a
\* call awaiting its credential or its synthesis eventually returns, also
\* when its session was closed under it.
C36_EverySpeakEnds ==
    \A c \in CallIds : (calls[c].pc \in {"token", "speaking"}) ~> (calls[c].pc = "done")

\* C37: stopMouth() cancels a speak() that still awaits its credential: the
\* step after a stopMouth() never opens the live session of a call that was
\* awaiting its token when stopMouth() ran.
C37_StopCancelsPendingSpeak ==
    [][\A c \in CallIds :
          (lastOp.op = "stopMouth" /\ calls[c].pc = "token") => ~calls'[c].open]_vars

\* C38: the end event of a cancelled utterance never stops the mouth of the
\* utterance that superseded it: while another utterance is being spoken, the
\* handler of that event leaves the active timeline active.
C38_CancelledEndKeepsNewerMouth ==
    [][\A c \in CallIds :
          (/\ calls[c].utt = "cancelled"
           /\ calls'[c].utt = "none"
           /\ \E d \in CallIds : calls[d].utt = "speaking")
          => visemes'.active = visemes.active]_vars

\* C39: the registry never holds one target of one mesh under two labels:
\* two channels of different labels differ in their mesh or in their index.
C39_TargetUnderOneLabel ==
    \A l1 \in Labels, l2 \in Labels :
        l1 # l2 =>
            \A j \in 1..Len(morphIndex[l1]), k \in 1..Len(morphIndex[l2]) :
                morphIndex[l1][j] # morphIndex[l2][k]

\* C40: triggering a gesture that is already triggered restarts its duration:
\* the flag is never reset earlier than the fixed duration after the latest
\* trigger, so the timer of an earlier trigger never ends the gesture.
C40_RetriggerRestartsDuration ==
    [][\A g \in {"wave", "nod"} :
          (gesture[g] /\ ~gesture'[g]) => now >= gesture.started[g] + gestureMs[g]]_vars

====
